---- MODULE Spec2Model ----
(***************************************************************************)
(* A model of tradeship: the dependency registry (src/dep-registry.js) and *)
(* the import rewriter (src/lib/importer.js, src/importer.js).             *)
(*                                                                         *)
(* Five specifications share the module:                                   *)
(*   SpecPopulate  the static, memoized DepRegistry.populate(dir)          *)
(*   SpecBuild     one registry build: instance populate(dir)              *)
(*   SpecRewrite   rewriteCode on one input file                           *)
(*   SpecCompose   composeStatements on one lib                            *)
(*   SpecAssociate associate on a sequence of candidates                   *)
(* Each leaves the variables of the other four at their initial value.     *)
(***************************************************************************)
EXTENDS Integers, Sequences, FiniteSets, TLC

VARIABLES
  \* --- static DepRegistry.populate ---
  promises,    \* DepRegistry.promises: dir -> instance whose build promise it holds (0: none)
  instances,   \* DepRegistry.instances: dir -> published instance (0: none)
  insts,       \* every DepRegistry constructed so far: <<[dir, pc]>>
  handles,     \* caller -> what populate(dir) returned to it
  \* --- one registry build: instance populate(dir) ---
  env,         \* the build's inputs: manifest, cache file, probe and parse results
  bpc,         \* the link of populate(dir)'s promise chain that is pending
  lookup,      \* the directory findPkgMeta is reading package.json in
  meta,        \* this.meta (found = FALSE: undefined)
  thisDir,     \* this.dir (<<>>: undefined)
  cache,       \* what readCache resolved to
  registry,    \* this.registry: <<[id, entry]>> in key order
  pending,     \* the filesystem calls of the project walk still in flight
  cacheFile,   \* what writeFile was given
  deps,        \* this.deps
  regLog,      \* history: every register(cache, id, version) call and its outcome
  scanned,     \* history: ids handed to populateIdents/PropsDefaults/File
  filled,      \* history: ids whose fill has run to its end
  failure,     \* history: what rejected the build ("" while none)
  \* --- one run of the import rewriter ---
  rin,         \* the run's inputs: the file's style and its text
  rpc,         \* where run() is: "start", "walked", "rewritten"
  pass,        \* which rewrite of the file this is: 1, or 2 on its own output
  code,        \* the text given to this pass
  context,     \* what walker.run returned for it
  block,       \* what composeRequires returned
  output,      \* what rewriteCode returned
  \* --- one call of composeStatements ---
  cin,         \* the call's arguments: style, id and lib
  cpc,         \* "start", then "composed" or "thrown"
  cout,        \* the calls it made to the statement composers, and what they returned
  \* --- calls of associate on one registry ---
  offers,      \* the candidates still to be offered, in order
  offered,     \* the candidates offered so far, in order
  assoc        \* this.deps of that registry

pvars == <<promises, instances, insts, handles>>
bvars == <<env, bpc, lookup, meta, thisDir, cache, registry, pending,
           cacheFile, deps, regLog, scanned, filled, failure>>
rvars == <<rin, rpc, pass, code, context, block, output>>
cvars == <<cin, cpc, cout>>
avars == <<offers, offered, assoc>>
vars == <<pvars, bvars, rvars, cvars, avars>>
\* what the actions of one specification leave alone
notPopulate == <<bvars, rvars, cvars, avars>>
notBuild == <<pvars, rvars, cvars, avars>>
notRewrite == <<pvars, bvars, cvars, avars>>
notCompose == <<pvars, bvars, rvars, avars>>
notAssociate == <<pvars, bvars, rvars, cvars>>

----------------------------------------------------------------------------
(* Strings are sequences of one-character strings: "fs" is <<"f", "s">>.   *)

LowerChars ==
  <<"a", "b", "c", "d", "e", "f", "g", "h", "i", "j", "k", "l", "m",
    "n", "o", "p", "q", "r", "s", "t", "u", "v", "w", "x", "y", "z">>
UpperChars ==
  <<"A", "B", "C", "D", "E", "F", "G", "H", "I", "J", "K", "L", "M",
    "N", "O", "P", "Q", "R", "S", "T", "U", "V", "W", "X", "Y", "Z">>
DigitChars == {"0", "1", "2", "3", "4", "5", "6", "7", "8", "9"}

Range(f) == {f[i] : i \in DOMAIN f}
Letters == Range(LowerChars) \cup Range(UpperChars)
IsLetter(c) == c \in Letters
\* \w without the underscore: the characters /[\W_]+/ does not split on
IsAlnum(c) == IsLetter(c) \/ c \in DigitChars

\* String.prototype.toUpperCase on one character
ToUpper(c) ==
  IF c \in Range(LowerChars)
    THEN UpperChars[CHOOSE i \in DOMAIN LowerChars : LowerChars[i] = c]
    ELSE c

\* s.slice(from - 1), 1-based
Drop(s, n) == SubSeq(s, n + 1, Len(s))
Take(s, n) == SubSeq(s, 1, n)

Contains(s, c) == \E i \in DOMAIN s : s[i] = c
LastIndexOf(s, c) ==
  IF Contains(s, c) THEN CHOOSE i \in DOMAIN s : s[i] = c /\ \A j \in DOMAIN s : s[j] = c => j <= i
  ELSE 0

RECURSIVE Concat(_)
Concat(ss) == IF ss = <<>> THEN <<>> ELSE Head(ss) \o Concat(Tail(ss))

\* path.basename(p)
Basename(p) == Drop(p, LastIndexOf(p, "/"))
\* path.extname(p): from the last "." of the base name, unless it leads it
Extname(p) ==
  LET b == Basename(p)
      k == LastIndexOf(b, ".")
  IN IF k <= 1 THEN <<>> ELSE Drop(b, k - 1)
\* path.basename(p, path.extname(p))
BasenameNoExt(p) ==
  LET b == Basename(p)
  IN Take(b, Len(b) - Len(Extname(p)))
\* path.join(dir, name)
Join(dir, name) == IF dir = <<"/">> THEN dir \o name ELSE dir \o <<"/">> \o name
\* path.join(dir, "..")
Parent(dir) ==
  LET k == LastIndexOf(dir, "/")
  IN IF k <= 1 THEN <<"/">> ELSE Take(dir, k - 1)

\* identRegex = /^[$a-z_][0-9a-z_$]*$/i
identRegex(s) ==
  /\ Len(s) > 0
  /\ IsLetter(s[1]) \/ s[1] \in {"$", "_"}
  /\ \A i \in DOMAIN s : IsAlnum(s[i]) \/ s[i] \in {"$", "_"}

\* base.split(/[\W_]+/g).filter(p => p !== ""): the maximal runs of
\* letters and digits
RECURSIVE SplitWords(_)
SplitWords(s) ==
  IF s = <<>> THEN <<>>
  ELSE IF ~IsAlnum(s[1]) THEN SplitWords(Tail(s))
  ELSE LET n == CHOOSE k \in 1..Len(s) :
                  /\ \A i \in 1..k : IsAlnum(s[i])
                  /\ k = Len(s) \/ ~IsAlnum(s[k + 1])
       IN <<Take(s, n)>> \o SplitWords(Drop(s, n))

\* p[0].toUpperCase() + p.slice(1)
Capitalize(p) == <<ToUpper(p[1])>> \o Tail(p)

\* pkgRegex (common.js): the id has the shape of a package id, not of a path
pkgRegex(id) == Len(id) > 0 /\ id[1] \notin {".", "/"}

----------------------------------------------------------------------------
(* The registry build: data and pure functions                             *)

\* DepRegistry.types
TypeIdent == 1
TypeDefault == 2
TypeProp == 3

\* the three priorities computeDeps hands out
PriorityNode == 3
PriorityPkgRegex == 1
PriorityOther == 2

\* repl._builtinLibs, process.version
BuiltinLibs == << <<"f", "s">>, <<"u">> >>
ProcessVersion == "v8.0.0"

\* the project: /p holds .h, node_modules, x/u.js, y/u.js and y/r.md
StartDir == <<"/", "p">>
DirX == Join(StartDir, <<"x">>)
DirY == Join(StartDir, <<"y">>)
FileXU == Join(DirX, <<"u", ".", "j", "s">>)
FileYU == Join(DirY, <<"u", ".", "j", "s">>)
FileYR == Join(DirY, <<"r", ".", "m", "d">>)
DirNodeModules == Join(StartDir, <<"n", "o", "d", "e", "_", "m", "o", "d", "u", "l", "e", "s">>)
ProjectFiles == {FileXU, FileYU}

\* what readdir(dir) resolves to
ReaddirResult(dir) ==
  IF dir = StartDir
    THEN << <<".", "h">>, Basename(DirNodeModules), <<"x">>, <<"y">> >>
  ELSE IF dir = DirX THEN << Basename(FileXU) >>
  ELSE IF dir = DirY THEN << Basename(FileYU), Basename(FileYR) >>
  ELSE <<>>

\* what stat(path) resolves to; mtime is s.mtime.getTime()
StatResult(path) ==
  [isFile |-> path \in {FileXU, FileYU, FileYR},
   isDirectory |-> path \in {DirX, DirY, DirNodeModules},
   mtime |-> "1500000000000"]

\* the one declared dependency a manifest may carry, and its node_modules path
DepAB == <<"a", "-", "b">>
Manifests ==
  { [found |-> FALSE, dependencies |-> <<>>],
    [found |-> TRUE, dependencies |-> <<>>],
    [found |-> TRUE, dependencies |-> << [id |-> DepAB, version |-> "^1.2.0"] >>] }

NameU == <<"u">>
NameK == <<"k">>
NameM == <<"m">>

\* what the sandboxed propsScript yields for an id, or that it throws
ProbeThrows == [throws |-> TRUE, props |-> <<>>, hasDefault |-> FALSE]
ProbeResults(id) ==
  IF id = DepAB
    THEN { ProbeThrows,
           [throws |-> FALSE, props |-> <<NameK>>, hasDefault |-> FALSE],
           [throws |-> FALSE, props |-> <<NameU, NameK>>, hasDefault |-> TRUE] }
    ELSE { [throws |-> FALSE, props |-> <<NameK>>, hasDefault |-> FALSE] }

\* what parser.run(code) returns for a project file: null when the code
\* does not parse, else the exports it found
ParseNull ==
  [isNull |-> TRUE, hasExports |-> FALSE,
   idents |-> <<>>, defaults |-> <<>>, props |-> <<>>]
ParseResults ==
  { ParseNull,
    [isNull |-> FALSE, hasExports |-> FALSE,
     idents |-> <<>>, defaults |-> <<>>, props |-> <<>>],
    [isNull |-> FALSE, hasExports |-> TRUE,
     idents |-> <<NameM>>, defaults |-> <<>>, props |-> <<NameK>>],
    [isNull |-> FALSE, hasExports |-> TRUE,
     idents |-> <<NameM>>, defaults |-> <<NameM>>, props |-> <<>>] }

\* the version each source is registered with
CurrentVersion(id) ==
  IF id \in Range(BuiltinLibs) THEN ProcessVersion
  ELSE IF id = DepAB THEN "^1.2.0"
  ELSE StatResult(id).mtime

AllIds == Range(BuiltinLibs) \cup {DepAB} \cup ProjectFiles

\* an entry some earlier build stored for id under the given version
CachedEntry(id, version) ==
  [version |-> version,
   idents |-> IF id \in ProjectFiles THEN <<>> ELSE <<NameM>>,
   defaults |-> IF id \in ProjectFiles THEN <<NameM>> ELSE <<>>,
   props |-> <<NameK>>]

\* the cache files the build may find: id -> entry, for the ids it holds
EmptyCache == [id \in {} |-> 0]
CacheContents ==
  { EmptyCache,
    [id \in AllIds |-> CachedEntry(id, CurrentVersion(id))],
    [id \in AllIds |-> CachedEntry(id, "0.0.1")],
    [id \in {BuiltinLibs[1], FileXU} |-> CachedEntry(id, CurrentVersion(id))]
      @@ [id \in {DepAB, FileYU} |-> CachedEntry(id, "0.0.1")] }

\* how reading the cache file ends
CacheReads == {"ok", "ENOENT", "EACCES", "notJSON"}

\* { version, idents: [], defaults: [], props: [] }
FreshEntry(version) ==
  [version |-> version, idents |-> <<>>, defaults |-> <<>>, props |-> <<>>]

\* mutant: any cached entry is taken, whatever its version
CacheHitAnyVersion(c, id, version) == id \in DOMAIN c

\* the negation of register's test: cache[id] && cache[id].version === version
CacheHit(c, id, version) ==
  id \in DOMAIN c /\ c[id].version = version

\* the registry is a JS object: keys keep their insertion order, and
\* assigning to a key it has keeps the key's place
RegistryIds(reg) == {reg[i].id : i \in DOMAIN reg}
RegistryGet(reg, id) == (CHOOSE i \in DOMAIN reg : reg[i].id = id)
RegistrySet(reg, id, entry) ==
  IF id \in RegistryIds(reg)
    THEN [reg EXCEPT ![RegistryGet(reg, id)] = [id |-> id, entry |-> entry]]
    ELSE Append(reg, [id |-> id, entry |-> entry])
EntryOf(reg, id) == reg[RegistryGet(reg, id)].entry

\* register(cache, id, version): the entry placed in the registry
RegisterEntry(c, id, version) ==
  IF ~CacheHit(c, id, version) THEN FreshEntry(version) ELSE c[id]

\* the base name populateIdents derives from an id
IdentBase(id) ==
  IF ~Contains(id, "/") THEN id
  ELSE IF pkgRegex(id) THEN Basename(id)
  ELSE BasenameNoExt(id)

CamelCase(base) ==
  LET parts == SplitWords(base)
  IN Concat([i \in DOMAIN parts |->
               IF i = 1 THEN parts[i] ELSE Capitalize(parts[i])])

\* populateIdents(entry, id)
PopulateIdents(entry, id) ==
  LET base == IdentBase(id)
      camelCase == CamelCase(base)
      i1 == IF identRegex(base) THEN <<base>> ELSE <<>>
      i2 == IF Len(camelCase) > 0 /\ camelCase # base THEN <<camelCase>> ELSE <<>>
      i3 == IF Len(camelCase) > 0 THEN <<Capitalize(camelCase)>> ELSE <<>>
  IN [entry EXCEPT !.idents = @ \o i1 \o i2 \o i3]

\* mutant: a throwing probe empties the entry
PopulatePropsDefaultsDropping(entry, probe) ==
  IF probe.throws THEN [entry EXCEPT !.idents = <<>>]
  ELSE IF probe.hasDefault
    THEN [entry EXCEPT !.props = @ \o probe.props,
                       !.defaults = @ \o entry.idents, !.idents = <<>>]
  ELSE [entry EXCEPT !.props = @ \o probe.props]

\* populatePropsDefaults(entry, id), given what vm.run(propsScript) does
PopulatePropsDefaults(entry, probe) ==
  IF probe.throws THEN entry
  ELSE LET e1 == [entry EXCEPT !.props = @ \o probe.props]
       IN IF probe.hasDefault
            THEN [e1 EXCEPT !.defaults = @ \o e1.idents, !.idents = <<>>]
            ELSE e1

\* the idents not yet among the defaults, in order
RECURSIVE PromoteInto(_, _)
PromoteInto(defaults, idents) ==
  IF idents = <<>> THEN defaults
  ELSE IF Contains(defaults, Head(idents))
    THEN PromoteInto(defaults, Tail(idents))
    ELSE PromoteInto(Append(defaults, Head(idents)), Tail(idents))

\* mutant: the idents of a file with defaults stay idents
PopulateFileWithoutPromotion(entry, filePath, exports) ==
  IF ~exports.isNull /\ exports.hasExports
    THEN PopulateIdents([entry EXCEPT !.defaults = @ \o exports.defaults,
                                      !.props = @ \o exports.props,
                                      !.idents = @ \o exports.idents], filePath)
    ELSE entry

\* the then-callback of populateFile(entry, filePath), given parser.run(code)
PopulateFile(entry, filePath, exports) ==
  IF ~exports.isNull /\ exports.hasExports
    THEN LET e1 == [entry EXCEPT !.defaults = @ \o exports.defaults,
                                 !.props = @ \o exports.props,
                                 !.idents = @ \o exports.idents]
             e2 == PopulateIdents(e1, filePath)
         IN IF Len(e2.defaults) > 0
              THEN [e2 EXCEPT !.defaults = PromoteInto(e2.defaults, e2.idents),
                              !.idents = <<>>]
              ELSE e2
    ELSE entry

\* the priority computeDeps gives an id
PriorityOf(id) ==
  IF id \in Range(BuiltinLibs) THEN PriorityNode
  ELSE IF pkgRegex(id) THEN PriorityPkgRegex
  ELSE PriorityOther

\* mutant: a prop is only replaced by a candidate of higher priority number
ReplacesByPriorityOnly(d, name, priority, type) ==
  \/ name \notin DOMAIN d
  \/ d[name].priority < priority

\* associate's test
Replaces(d, name, priority, type) ==
  \/ name \notin DOMAIN d
  \/ d[name].priority < priority
  \/ d[name].type = TypeProp /\ type # TypeProp

\* associate({ name, id, priority, type })
Associate(d, name, id, priority, type) ==
  IF Replaces(d, name, priority, type)
    THEN (name :> [id |-> id, priority |-> priority, type |-> type]) @@ d
    ELSE d

RECURSIVE AssociateAll(_, _, _, _, _)
AssociateAll(d, names, id, priority, type) ==
  IF names = <<>> THEN d
  ELSE AssociateAll(Associate(d, Head(names), id, priority, type),
                    Tail(names), id, priority, type)

\* computeDeps(), over the registry's keys in their order
RECURSIVE ComputeDepsFrom(_, _)
ComputeDepsFrom(d, reg) ==
  IF reg = <<>> THEN d
  ELSE LET id == Head(reg).id
           e == Head(reg).entry
           d1 == AssociateAll(d, e.idents, id, PriorityOf(id), TypeIdent)
           d2 == AssociateAll(d1, e.defaults, id, PriorityOf(id), TypeDefault)
           d3 == AssociateAll(d2, e.props, id, PriorityOf(id), TypeProp)
       IN ComputeDepsFrom(d3, Tail(reg))

NoDeps == [n \in {} |-> 0]
ComputeDeps(reg) == ComputeDepsFrom(NoDeps, reg)

----------------------------------------------------------------------------
(* The registry build: instance populate(dir)                              *)

NoMeta == [found |-> FALSE, dependencies |-> <<>>]

BuildStart ==
  /\ bpc = "findPkgMeta"
  /\ lookup = StartDir
  /\ meta = NoMeta
  /\ thisDir = <<>>
  /\ cache = EmptyCache
  /\ registry = <<>>
  /\ pending = {}
  /\ cacheFile = <<>>
  /\ deps = NoDeps
  /\ regLog = <<>>
  /\ scanned = {}
  /\ filled = {}
  /\ failure = ""

Envs ==
  [manifest : Manifests,
   cacheRead : CacheReads,
   cacheContents : CacheContents,
   probe : {f \in [Range(BuiltinLibs) \cup {DepAB} -> UNION {ProbeResults(i) : i \in AllIds}] :
              \A i \in DOMAIN f : f[i] \in ProbeResults(i)},
   parsed : [ProjectFiles -> ParseResults]]

\* a cache file that cannot be read as JSON has no contents to choose
EnvOk(e) == e.cacheRead # "ok" => e.cacheContents = EmptyCache

BuildInputs ==
  /\ env \in {e \in Envs : EnvOk(e)}
  /\ BuildStart

\* the build's variables while another specification runs
IdleBuild ==
  /\ env = [manifest |-> NoMeta, cacheRead |-> "ENOENT",
            cacheContents |-> EmptyCache,
            probe |-> [i \in Range(BuiltinLibs) \cup {DepAB} |-> ProbeThrows],
            parsed |-> [f \in ProjectFiles |-> ParseNull]]
  /\ BuildStart

\* readFile(path.join(dir, "package.json")) settles, in findPkgMeta
FindPkgMeta ==
  /\ bpc = "findPkgMeta"
  /\ IF env.manifest.found /\ lookup = StartDir
       THEN /\ meta' = env.manifest
            /\ thisDir' = lookup
            /\ bpc' = "readCache"
            /\ UNCHANGED lookup
       ELSE \* ENOENT
            IF lookup = <<"/">>
              THEN /\ bpc' = "readCache"
                   /\ UNCHANGED <<meta, thisDir, lookup>>
              ELSE /\ lookup' = Parent(lookup)
                   /\ UNCHANGED <<meta, thisDir, bpc>>
  /\ UNCHANGED <<env, cache, registry, pending, cacheFile, deps, regLog,
                 scanned, filled, failure>>
  /\ UNCHANGED notBuild

\* readFile(this.cachePath) settles, then JSON.parse
ReadCache ==
  /\ bpc = "readCache"
  /\ IF env.cacheRead = "EACCES"
       THEN bpc' = "failed" /\ failure' = "readCache" /\ UNCHANGED cache
       ELSE /\ bpc' = "register"
            /\ cache' = IF env.cacheRead = "ok" THEN env.cacheContents ELSE EmptyCache
            /\ UNCHANGED failure
  /\ UNCHANGED <<env, lookup, meta, thisDir, registry, pending, cacheFile,
                 deps, regLog, scanned, filled>>
  /\ UNCHANGED notBuild

\* one turn of the builtin loop or of the dependency loop: register, and
\* fill the entry when it is fresh
RegisterExternal(st, id, version) ==
  LET hit == CacheHit(cache, id, version)
      entry == RegisterEntry(cache, id, version)
      full == PopulatePropsDefaults(PopulateIdents(entry, id), env.probe[id])
  IN [registry |-> RegistrySet(st.registry, id, IF hit THEN entry ELSE full),
      regLog |-> Append(st.regLog,
                        [id |-> id, version |-> version, fresh |-> ~hit,
                         placed |-> entry]),
      scanned |-> IF hit THEN st.scanned ELSE st.scanned \cup {id},
      filled |-> IF hit THEN st.filled ELSE st.filled \cup {id}]

RECURSIVE RegisterBuiltins(_, _)
RegisterBuiltins(st, ids) ==
  IF ids = <<>> THEN st
  ELSE RegisterBuiltins(RegisterExternal(st, Head(ids), ProcessVersion), Tail(ids))

RECURSIVE RegisterDependencies(_, _)
RegisterDependencies(st, dependencies) ==
  IF dependencies = <<>> THEN st
  ELSE RegisterDependencies(
         RegisterExternal(st, Head(dependencies).id, Head(dependencies).version),
         Tail(dependencies))

\* the then-callback of populate(dir) that registers the builtins and the
\* declared dependencies and starts the project walk
RegisterSources ==
  /\ bpc = "register"
  /\ LET st0 == [registry |-> registry, regLog |-> regLog,
                 scanned |-> scanned, filled |-> filled]
         st1 == RegisterBuiltins(st0, BuiltinLibs)
         st2 == IF meta.found THEN RegisterDependencies(st1, meta.dependencies)
                ELSE st1
     IN /\ registry' = st2.registry
        /\ regLog' = st2.regLog
        /\ scanned' = st2.scanned
        /\ filled' = st2.filled
  /\ pending' = IF thisDir # <<>> THEN {[op |-> "readdir", path |-> thisDir]} ELSE {}
  /\ bpc' = "walk"
  /\ UNCHANGED <<env, lookup, meta, thisDir, cache, cacheFile, deps, failure>>
  /\ UNCHANGED notBuild

\* readdir(dir) resolves, in populateDir: one stat per name without a leading dot
ReaddirDone(op) ==
  /\ bpc = "walk"
  /\ op \in pending /\ op.op = "readdir"
  /\ LET files == ReaddirResult(op.path)
     IN pending' = (pending \ {op}) \cup
          {[op |-> "stat", path |-> Join(op.path, files[i])] :
             i \in {j \in DOMAIN files : files[j][1] # "."}}
  /\ UNCHANGED <<env, bpc, lookup, meta, thisDir, cache, registry, cacheFile,
                 deps, regLog, scanned, filled, failure>>
  /\ UNCHANGED notBuild

SourceExts == { <<".", "j", "s">>, <<".", "j", "s", "x">> }
SkippedDirs ==
  { Basename(DirNodeModules),
    <<"b", "o", "w", "e", "r", "_", "c", "o", "m", "p", "o", "n", "e", "n", "t", "s">> }

\* stat(filePath) resolves, in populateDir
StatDone(op) ==
  /\ bpc = "walk"
  /\ op \in pending /\ op.op = "stat"
  /\ LET s == StatResult(op.path)
         file == Basename(op.path)
         hit == CacheHit(cache, op.path, s.mtime)
         entry == RegisterEntry(cache, op.path, s.mtime)
     IN IF s.isFile /\ Extname(file) \in SourceExts
          THEN /\ registry' = RegistrySet(registry, op.path, entry)
               /\ regLog' = Append(regLog,
                    [id |-> op.path, version |-> s.mtime, fresh |-> ~hit,
                     placed |-> entry])
               /\ scanned' = IF hit THEN scanned ELSE scanned \cup {op.path}
               /\ pending' = (pending \ {op}) \cup
                    (IF hit THEN {} ELSE {[op |-> "readFile", path |-> op.path]})
          ELSE /\ pending' = (pending \ {op}) \cup
                    (IF s.isDirectory /\ file \notin SkippedDirs
                       THEN {[op |-> "readdir", path |-> op.path]} ELSE {})
               /\ UNCHANGED <<registry, regLog, scanned>>
  /\ UNCHANGED <<env, bpc, lookup, meta, thisDir, cache, cacheFile, deps,
                 filled, failure>>
  /\ UNCHANGED notBuild

\* readFile(filePath) resolves, in populateFile
ReadFileDone(op) ==
  /\ bpc = "walk"
  /\ op \in pending /\ op.op = "readFile"
  /\ registry' = RegistrySet(registry, op.path,
       PopulateFile(EntryOf(registry, op.path), op.path, env.parsed[op.path]))
  /\ filled' = filled \cup {op.path}
  /\ pending' = pending \ {op}
  /\ UNCHANGED <<env, bpc, lookup, meta, thisDir, cache, cacheFile, deps,
                 regLog, scanned, failure>>
  /\ UNCHANGED notBuild

\* a filesystem call of the walk, or the write of the cache, rejects: the
\* chain rejects and computeDeps never runs
IoError ==
  /\ \/ bpc = "walk" /\ pending # {}
     \/ bpc = "writeFile"
  /\ failure' = bpc
  /\ bpc' = "failed"
  /\ pending' = {}
  /\ UNCHANGED <<env, lookup, meta, thisDir, cache, registry, cacheFile,
                 deps, regLog, scanned, filled>>
  /\ UNCHANGED notBuild

\* the walk's Promise.all resolves: writeFile(cachePath, JSON.stringify(registry))
WalkDone ==
  /\ bpc = "walk" /\ pending = {}
  /\ cacheFile' = registry
  /\ bpc' = "writeFile"
  /\ UNCHANGED <<env, lookup, meta, thisDir, cache, registry, pending, deps,
                 regLog, scanned, filled, failure>>
  /\ UNCHANGED notBuild

\* writeFile resolves: computeDeps()
WriteFileDone ==
  /\ bpc = "writeFile"
  /\ deps' = ComputeDeps(registry)
  /\ bpc' = "done"
  /\ UNCHANGED <<env, lookup, meta, thisDir, cache, registry, pending,
                 cacheFile, regLog, scanned, filled, failure>>
  /\ UNCHANGED notBuild

NextBuild ==
  \/ FindPkgMeta
  \/ ReadCache
  \/ RegisterSources
  \/ \E op \in pending : ReaddirDone(op)
  \/ \E op \in pending : StatDone(op)
  \/ \E op \in pending : ReadFileDone(op)
  \/ IoError
  \/ WalkDone
  \/ WriteFileDone

\* search(name)
Found(name) == name \in DOMAIN deps

----------------------------------------------------------------------------
(* Claims about the registry build                                         *)

SetMin(S) == CHOOSE x \in S : \A y \in S : x <= y

Lists(entry, name) ==
  Contains(entry.idents, name) \/ Contains(entry.defaults, name)
    \/ Contains(entry.props, name)
ListedNames(reg) ==
  UNION {Range(reg[i].entry.idents) \cup Range(reg[i].entry.defaults)
           \cup Range(reg[i].entry.props) : i \in DOMAIN reg}

\* the priorities as the data model states them: 1 project file,
\* 2 declared dependency, 3 platform builtin
StatedPriority(id) ==
  IF id \in Range(BuiltinLibs) THEN 3
  ELSE IF id[1] = "/" THEN 1
  ELSE 2

\* C2: once computeDeps has run, every name some registry entry lists is
\* found by search, with the lowest stated priority among the entries that
\* list it (project file 1 < declared dependency 2 < builtin 3).
C2_LowestPriorityWins ==
  bpc = "done" =>
    \A name \in ListedNames(registry) :
      /\ Found(name)
      /\ deps[name].priority =
           SetMin({StatedPriority(registry[i].id) :
                     i \in {j \in DOMAIN registry : Lists(registry[j].entry, name)}})

\* C3: a registered (id, version) takes the cached entry, untouched and
\* unscanned, exactly when the cache holds id under that very version;
\* otherwise a fresh, empty entry of the current version is allocated,
\* scanned, and filled by the time the walk is over.
C3_ReuseIffVersionMatches ==
  \A k \in DOMAIN regLog :
    LET r == regLog[k]
        match == r.id \in DOMAIN cache /\ cache[r.id].version = r.version
    IN /\ ~r.fresh <=> match
       /\ match => /\ r.placed = cache[r.id]
                   /\ EntryOf(registry, r.id) = cache[r.id]
                   /\ r.id \notin scanned
       /\ ~match => /\ r.placed = FreshEntry(r.version)
                    /\ EntryOf(registry, r.id).version = r.version
                    /\ r.id \in scanned
                    /\ bpc \in {"writeFile", "done"} => r.id \in filled

\* a finished build that reused one entry, rebuilt a stale one and built
\* one the cache did not hold
C3_Witness ==
  /\ bpc = "done"
  /\ \E k \in DOMAIN regLog : ~regLog[k].fresh /\ regLog[k].id \in ProjectFiles
  /\ \E k \in DOMAIN regLog :
       /\ regLog[k].fresh /\ regLog[k].id \in DOMAIN cache
       /\ regLog[k].id \in ProjectFiles
  /\ \E k \in DOMAIN regLog : regLog[k].fresh /\ regLog[k].id \notin DOMAIN cache

\* the registry with the project files keyed in the order the walk asks
\* for them, as when every readdir and stat completes in the order issued
WalkOrder == <<FileXU, FileYU>>
InWalkOrder(reg) ==
  SelectSeq(reg, LAMBDA r : r.id \notin ProjectFiles) \o
  Concat([i \in DOMAIN WalkOrder |->
            SelectSeq(reg, LAMBDA r : r.id = WalkOrder[i])])

\* C9: for fixed inputs the deps map does not depend on the order in which
\* the walk's readdir and stat calls complete: it is the map of the run in
\* which they complete in the order issued.
C9_DepsIndependentOfCompletionOrder ==
  bpc = "done" => deps = ComputeDeps(InWalkOrder(registry))

\* the identifiers populateIdents derives from an id
IdDerived(id) == PopulateIdents(FreshEntry(""), id).idents

ProbeFailed(id) == id \in DOMAIN env.probe /\ env.probe[id].throws
AnalysisFailed(id) == id \in ProjectFiles /\ env.parsed[id].isNull
IoFailures == {"readCache", "walk", "writeFile"}

C11_CacheNeverFailsBuild ==
  env.cacheRead # "ok" =>
    /\ failure # "readCache"
    /\ bpc \notin {"findPkgMeta", "readCache"} =>
         /\ cache = EmptyCache
         /\ \A k \in DOMAIN regLog : regLog[k].fresh

\* an entry keeps idents and defaults apart, and has no idents once it has
\* a default
Promoted(entry) ==
  /\ Range(entry.idents) \cap Range(entry.defaults) = {}
  /\ entry.defaults # <<>> => entry.idents = <<>>

\* C15: when computeDeps runs, and after it, no entry of the registry has a
\* name both among its idents and its defaults, and an entry with defaults
\* has no idents, whether it was filled by the sandbox probe, by the export
\* analysis of a file, or taken from the cache
C15_EntriesPromoted ==
  bpc \in {"writeFile", "done"} =>
    \A k \in DOMAIN registry : Promoted(registry[k].entry)

\* C15 witness: a finished build whose registry holds, each with defaults,
\* an external package probed in this build, a project file analysed in this
\* build whose id-derived idents were merged in, and an entry taken from the
\* cache
C15_Witness ==
  /\ bpc = "done"
  /\ \E k \in DOMAIN regLog :
       /\ regLog[k].fresh /\ regLog[k].id \notin ProjectFiles
       /\ EntryOf(registry, regLog[k].id).defaults # <<>>
  /\ \E k \in DOMAIN regLog :
       /\ regLog[k].fresh /\ regLog[k].id \in ProjectFiles
       /\ Len(EntryOf(registry, regLog[k].id).defaults) > 1
  /\ \E k \in DOMAIN regLog :
       /\ ~regLog[k].fresh
       /\ EntryOf(registry, regLog[k].id).defaults # <<>>

----------------------------------------------------------------------------
(* The import block composer (lib/importer.js)                             *)

\* the characters of the model in UTF-16 code unit order, for < on strings
Ascii ==
  <<"\n", " ", "\"", "$", "'", "(", ")", "*", ",", "-", ".", "/",
    "0", "1", "2", "3", "4", "5", "6", "7", "8", "9", ";", "=">>
  \o UpperChars \o <<"_">> \o LowerChars \o <<"{", "}">>
CharCode(c) == CHOOSE i \in DOMAIN Ascii : Ascii[i] = c

\* s1 < s2 on JS strings
RECURSIVE StrLess(_, _)
StrLess(s1, s2) ==
  IF s2 = <<>> THEN FALSE
  ELSE IF s1 = <<>> THEN TRUE
  ELSE IF s1[1] # s2[1] THEN CharCode(s1[1]) < CharCode(s2[1])
  ELSE StrLess(Tail(s1), Tail(s2))

\* Array.prototype.join
RECURSIVE JoinWith(_, _)
JoinWith(ss, sep) ==
  IF ss = <<>> THEN <<>>
  ELSE IF Len(ss) = 1 THEN ss[1]
  ELSE ss[1] \o sep \o JoinWith(Tail(ss), sep)

\* String.prototype.split on one separator character
RECURSIVE SplitOn(_, _)
SplitOn(s, c) ==
  IF ~Contains(s, c) THEN <<s>>
  ELSE LET at == {i \in DOMAIN s : s[i] = c}
           k == CHOOSE i \in at : \A j \in at : i <= j
       IN <<Take(s, k - 1)>> \o SplitOn(Drop(s, k), c)

\* Array.prototype.sort() on strings: ascending, by insertion
RECURSIVE InsertSorted(_, _)
InsertSorted(sorted, x) ==
  IF sorted = <<>> THEN <<x>>
  ELSE IF StrLess(x, Head(sorted)) THEN <<x>> \o sorted
  ELSE <<Head(sorted)>> \o InsertSorted(Tail(sorted), x)
RECURSIVE SortStrings(_)
SortStrings(ss) ==
  IF ss = <<>> THEN <<>>
  ELSE InsertSorted(SortStrings(Take(ss, Len(ss) - 1)), ss[Len(ss)])

\* fileRegex (common.js): the id is written as a path
fileRegex(id) ==
  \/ Len(id) >= 1 /\ id[1] = "/"
  \/ Len(id) >= 2 /\ Take(id, 2) = <<".", "/">>
  \/ Len(id) >= 3 /\ Take(id, 3) = <<".", ".", "/">>

\* whiteRegex (common.js) = /^\s*$/, on a line's text
whiteRegex(text) == \A i \in DOMAIN text : text[i] = " "

\* path.isAbsolute
IsAbsolute(id) == Len(id) >= 1 /\ id[1] = "/"

\* the segments of a path
Segments(path) == SelectSeq(SplitOn(path, "/"), LAMBDA x : x # <<>>)

\* path.resolve(dir, ...segments)
RECURSIVE ResolveSegments(_, _)
ResolveSegments(stack, segs) ==
  IF segs = <<>> THEN stack
  ELSE IF Head(segs) = <<".">> \/ Head(segs) = <<>> THEN ResolveSegments(stack, Tail(segs))
  ELSE IF Head(segs) = <<".", ".">>
    THEN ResolveSegments(IF stack = <<>> THEN stack ELSE Take(stack, Len(stack) - 1),
                         Tail(segs))
  ELSE ResolveSegments(Append(stack, Head(segs)), Tail(segs))
PathResolve(dir, segs) ==
  <<"/">> \o JoinWith(ResolveSegments(Segments(dir), segs), <<"/">>)

\* path.relative(from, to), both absolute
RECURSIVE DropCommon(_, _)
DropCommon(a, b) ==
  IF a # <<>> /\ b # <<>> /\ Head(a) = Head(b) THEN DropCommon(Tail(a), Tail(b))
  ELSE <<a, b>>
PathRelative(from, to) ==
  LET rest == DropCommon(Segments(from), Segments(to))
  IN JoinWith([i \in DOMAIN rest[1] |-> <<".", ".">>] \o rest[2], <<"/">>)

MaxLineLength == 80

\* composeDestructure(style, props, multiline)
ComposeDestructure(style, props, multiline) ==
  IF multiline
    THEN <<"{", "\n">> \o style.tab
           \o JoinWith(props, <<",", "\n">> \o style.tab)
           \o style.trailingComma \o <<"\n", "}">>
    ELSE <<"{", " ">> \o JoinWith(props, <<",", " ">>) \o <<" ", "}">>

\* the throw that opens composeRequireStatement; an absent ident or def is
\* <<>>, an absent props has hasProps = FALSE
RequireThrows(a) ==
  \/ a.ident # <<>> /\ a.def # <<>>
  \/ a.ident # <<>> /\ a.hasProps
  \/ a.def # <<>> /\ a.hasProps

RequireText(style, id) == <<"r", "e", "q", "u", "i", "r", "e", "(">> \o style.quote \o id \o style.quote \o <<")">>

RequireDestructured(style, a, multiline) ==
  style.kind \o <<" ">> \o ComposeDestructure(style, a.props, multiline)
    \o <<" ", "=", " ">> \o RequireText(style, a.id) \o style.semi

\* how many times composeRequireStatement is entered for one call of it
RECURSIVE RequireCalls(_, _, _)
RequireCalls(style, a, multiline) ==
  IF a.ident # <<>> \/ a.def # <<>> THEN 1
  ELSE IF ~multiline /\ Len(RequireDestructured(style, a, multiline)) > MaxLineLength
    THEN 1 + RequireCalls(style, a, TRUE)
  ELSE 1

\* mutant: a statement as long as the limit is already opened
ComposeRequireStatementAtLimit(style, a) ==
  IF a.ident # <<>>
    THEN style.kind \o <<" ">> \o a.ident \o <<" ", "=", " ">>
           \o RequireText(style, a.id) \o style.semi
  ELSE IF a.def # <<>>
    THEN style.kind \o <<" ">> \o a.def \o <<" ", "=", " ">>
           \o RequireText(style, a.id) \o <<".", "d", "e", "f", "a", "u", "l", "t">> \o style.semi
  ELSE IF Len(RequireDestructured(style, a, FALSE)) >= MaxLineLength
    THEN RequireDestructured(style, a, TRUE)
    ELSE RequireDestructured(style, a, FALSE)

\* composeRequireStatement({ style, id, ident, def, props })
ComposeRequireStatement(style, a) ==
  IF a.ident # <<>>
    THEN style.kind \o <<" ">> \o a.ident \o <<" ", "=", " ">>
           \o RequireText(style, a.id) \o style.semi
  ELSE IF a.def # <<>>
    THEN style.kind \o <<" ">> \o a.def \o <<" ", "=", " ">>
           \o RequireText(style, a.id) \o <<".", "d", "e", "f", "a", "u", "l", "t">> \o style.semi
  ELSE IF Len(RequireDestructured(style, a, FALSE)) > MaxLineLength
    THEN RequireDestructured(style, a, TRUE)
    ELSE RequireDestructured(style, a, FALSE)

\* the throw that opens composeImportStatement
ImportThrows(a) == a.ident # <<>> /\ a.hasProps /\ Len(a.props) > 0

ImportWith(style, a, multiline) ==
  LET parts == (IF a.def # <<>> THEN <<a.def>> ELSE <<>>)
                 \o (IF a.ident # <<>> THEN <<<<"*", " ", "a", "s", " ">> \o a.ident>> ELSE <<>>)
                 \o (IF a.hasProps /\ Len(a.props) > 0
                       THEN <<ComposeDestructure(style, a.props, multiline)>>
                       ELSE <<>>)
  IN <<"i", "m", "p", "o", "r", "t", " ">> \o JoinWith(parts, <<",", " ">>) \o <<" ", "f", "r", "o", "m", " ">>
       \o style.quote \o a.id \o style.quote \o style.semi

\* how many times composeImportStatement is entered for one call of it
RECURSIVE ImportCalls(_, _, _)
ImportCalls(style, a, multiline) ==
  IF a.hasProps /\ ~multiline /\ Len(ImportWith(style, a, multiline)) > MaxLineLength
    THEN 1 + ImportCalls(style, a, TRUE)
    ELSE 1

\* composeImportStatement({ style, id, ident, def, props })
ComposeImportStatement(style, a) ==
  IF a.hasProps /\ Len(ImportWith(style, a, FALSE)) > MaxLineLength
    THEN ImportWith(style, a, TRUE)
    ELSE ImportWith(style, a, FALSE)

\* the argument objects composeStatements builds
ArgIdent(id, ident) == [id |-> id, ident |-> ident, def |-> <<>>, props |-> <<>>, hasProps |-> FALSE]
ArgDef(id, def) == [id |-> id, ident |-> <<>>, def |-> def, props |-> <<>>, hasProps |-> FALSE]
ArgProps(id, props, def) == [id |-> id, ident |-> <<>>, def |-> def, props |-> props, hasProps |-> TRUE]
ArgPair(id, ident, def) == [id |-> id, ident |-> ident, def |-> def, props |-> <<>>, hasProps |-> FALSE]

\* xs[i] of JS: undefined (<<>>) past the end
At(xs, i) == IF i \in DOMAIN xs THEN xs[i] ELSE <<>>

\* composeStatements, require branch: the calls it makes
RequireArgs(lib, id) ==
  LET idents == SortStrings(lib.idents)
      defaults == SortStrings(lib.defaults)
      props == SortStrings(lib.props)
  IN [i \in DOMAIN idents |-> ArgIdent(id, idents[i])]
       \o [i \in DOMAIN defaults |-> ArgDef(id, defaults[i])]
       \o (IF Len(props) > 0 THEN <<ArgProps(id, props, <<>>)>> ELSE <<>>)

\* mutant: the default that goes with the props is emitted again
ImportArgsRepeatingDefault(lib, id) ==
  LET idents == SortStrings(lib.idents)
      defaults == SortStrings(lib.defaults)
      props == SortStrings(lib.props)
  IN (IF Len(props) > 0 THEN <<ArgProps(id, props, At(defaults, 1))>> ELSE <<>>)
       \o [i \in DOMAIN defaults |-> ArgPair(id, At(idents, i), defaults[i])]
       \o [i \in DOMAIN Drop(idents, Len(defaults)) |->
             ArgIdent(id, idents[Len(defaults) + i])]

\* composeStatements, import branch: the calls it makes
ImportArgs(lib, id) ==
  LET idents == SortStrings(lib.idents)
      defaults == SortStrings(lib.defaults)
      props == SortStrings(lib.props)
      leftDefaults == IF Len(props) > 0 THEN Drop(defaults, 1) ELSE defaults
  IN (IF Len(props) > 0 THEN <<ArgProps(id, props, At(defaults, 1))>> ELSE <<>>)
       \o [i \in DOMAIN leftDefaults |-> ArgPair(id, At(idents, i), leftDefaults[i])]
       \o [i \in DOMAIN Drop(idents, Len(leftDefaults)) |->
             ArgIdent(id, idents[Len(leftDefaults) + i])]

LibIsEmpty(lib) ==
  Len(lib.idents) = 0 /\ Len(lib.defaults) = 0 /\ Len(lib.props) = 0

\* the calls composeStatements makes, in order
StatementArgs(style, lib, id) ==
  IF LibIsEmpty(lib) THEN <<>>
  ELSE IF style.requireKeyword = "require" THEN RequireArgs(lib, id)
  ELSE ImportArgs(lib, id)

\* composeStatements(style, lib, id)
ComposeStatements(style, lib, id) ==
  IF LibIsEmpty(lib) THEN <<>>
  ELSE IF style.requireKeyword = "require"
    THEN LET args == RequireArgs(lib, id)
         IN [i \in DOMAIN args |-> ComposeRequireStatement(style, args[i])]
    ELSE LET args == ImportArgs(lib, id)
         IN [i \in DOMAIN args |-> ComposeImportStatement(style, args[i])]

\* mutant: ids are compared in full, whatever their base names
CompareByFullId(id1, id2) == StrLess(id1, id2)

\* compareByBasename(id1, id2) < 0
CompareByBasename(id1, id2) ==
  IF Basename(id1) # Basename(id2)
    THEN StrLess(Basename(id1), Basename(id2))
    ELSE StrLess(id1, id2)

\* ids.sort(compareByBasename)
RECURSIVE InsertById(_, _)
InsertById(sorted, id) ==
  IF sorted = <<>> THEN <<id>>
  ELSE IF CompareByBasename(id, Head(sorted)) THEN <<id>> \o sorted
  ELSE <<Head(sorted)>> \o InsertById(Tail(sorted), id)
RECURSIVE SortIds(_)
SortIds(ids) ==
  IF ids = <<>> THEN <<>>
  ELSE InsertById(SortIds(Take(ids, Len(ids) - 1)), ids[Len(ids)])

\* libs is a JS object: <<[id, lib]>> in key order
LibIds(libs) == [i \in DOMAIN libs |-> libs[i].id]
LibOf(libs, id) == libs[CHOOSE i \in DOMAIN libs : libs[i].id = id].lib
LibsSet(libs, id, lib) ==
  IF \E i \in DOMAIN libs : libs[i].id = id
    THEN [i \in DOMAIN libs |-> IF libs[i].id = id THEN [id |-> id, lib |-> lib] ELSE libs[i]]
    ELSE Append(libs, [id |-> id, lib |-> lib])
LibsDelete(libs, id) == SelectSeq(libs, LAMBDA l : l.id # id)

\* the id an absolute id is emitted under
RelativeId(dir, id) ==
  LET newID == PathRelative(dir, id)
  IN IF At(newID, 1) # "." THEN <<".", "/">> \o newID ELSE newID

\* composeRequires, first loop: turn absolute dep ids into relative ones
RECURSIVE RelativizeLibs(_, _, _)
RelativizeLibs(dir, libs, ids) ==
  IF ids = <<>> THEN libs
  ELSE LET id == Head(ids)
       IN IF IsAbsolute(id)
            THEN RelativizeLibs(dir,
                   LibsDelete(LibsSet(libs, RelativeId(dir, id), LibOf(libs, id)), id),
                   Tail(ids))
            ELSE RelativizeLibs(dir, libs, Tail(ids))

StatementsOf(style, libs, ids) ==
  Concat([k \in DOMAIN ids |-> ComposeStatements(style, LibOf(libs, ids[k]), ids[k])])

Separated(externalStatements, localStatements) ==
  externalStatements
    \o (IF Len(externalStatements) > 0 /\ Len(localStatements) > 0
          THEN << <<>> >> ELSE <<>>)
    \o localStatements

ComposedFrom(style, libs) ==
  Separated(
    StatementsOf(style, libs, SortIds(SelectSeq(LibIds(libs), LAMBDA i : ~fileRegex(i)))),
    StatementsOf(style, libs, SortIds(SelectSeq(LibIds(libs), LAMBDA i : fileRegex(i)))))

\* the statements composeRequires joins: external, separator, local
ComposedStatements(style, dir, libs) ==
  ComposedFrom(style, RelativizeLibs(dir, libs, LibIds(libs)))

\* composeRequires(style, dir, libs)
ComposeRequires(style, dir, libs) ==
  JoinWith(ComposedStatements(style, dir, libs), <<"\n">>)

----------------------------------------------------------------------------
(* The context walker.run(meta, code, visitors) hands to rewriteCode       *)

\* 1 + s.indexOf(c)
FirstIndexOf(s, c) ==
  LET at == {i \in DOMAIN s : s[i] = c}
  IN IF at = {} THEN 0 ELSE CHOOSE i \in at : \A j \in at : i <= j

IdentChars == Letters \cup DigitChars \cup {"$", "_"}
IsIdentChar(c) == c \in IdentChars

\* the tokens of a text: names and keywords, string literals (kept with
\* their opening quote), and single punctuation characters
RECURSIVE Tokenize(_)
Tokenize(s) ==
  IF s = <<>> THEN <<>>
  ELSE IF s[1] \in {" ", "\n"} THEN Tokenize(Tail(s))
  ELSE IF s[1] = "\""
    THEN LET rest == Tail(s)
             k == IF Contains(rest, "\"") THEN FirstIndexOf(rest, "\"") ELSE Len(rest) + 1
         IN << <<"\"">> \o Take(rest, k - 1) >> \o Tokenize(Drop(rest, k))
  ELSE IF IsIdentChar(s[1])
    THEN LET stops == {i \in DOMAIN s : ~IsIdentChar(s[i])}
             n == IF stops = {} THEN Len(s)
                  ELSE (CHOOSE i \in stops : \A j \in stops : i <= j) - 1
         IN <<Take(s, n)>> \o Tokenize(Drop(s, n))
  ELSE << <<s[1]>> >> \o Tokenize(Tail(s))

KwConst == <<"c", "o", "n", "s", "t">>
KwVar == <<"v", "a", "r">>
KwLet == <<"l", "e", "t">>
KwImport == <<"i", "m", "p", "o", "r", "t">>
KwFrom == <<"f", "r", "o", "m">>
KwAs == <<"a", "s">>
KwTypeof == <<"t", "y", "p", "e", "o", "f">>
KwRequire == <<"r", "e", "q", "u", "i", "r", "e">>
KwDefault == <<"d", "e", "f", "a", "u", "l", "t">>
Kinds == {KwConst, KwVar, KwLet}
Keywords == Kinds \cup {KwImport, KwFrom, KwAs, KwTypeof, KwRequire, KwDefault}

IsString(t) == Len(t) >= 1 /\ t[1] = "\""
IsName(t) == identRegex(t) /\ t \notin Keywords
NamesIn(ts) == SelectSeq(ts, IsName)

NotImport ==
  [ok |-> FALSE, depID |-> <<>>, idents |-> <<>>, defaults |-> <<>>, props |-> <<>>]
Ends(ts) == ts = <<>> \/ ts = << <<";">> >>

\* find-imports on a declaration: kind x = require(id), with .default,
\* or destructured
DecodeRequire(t) ==
  IF /\ Len(t) >= 7 /\ t[1] \in Kinds /\ IsName(t[2]) /\ t[3] = <<"=">>
     /\ t[4] = KwRequire /\ t[5] = <<"(">> /\ IsString(t[6]) /\ t[7] = <<")">>
    THEN IF Ends(Drop(t, 7))
           THEN [ok |-> TRUE, depID |-> Tail(t[6]), idents |-> <<t[2]>>,
                 defaults |-> <<>>, props |-> <<>>]
         ELSE IF Len(t) >= 9 /\ t[8] = <<".">> /\ t[9] = KwDefault /\ Ends(Drop(t, 9))
           THEN [ok |-> TRUE, depID |-> Tail(t[6]), idents |-> <<>>,
                 defaults |-> <<t[2]>>, props |-> <<>>]
         ELSE NotImport
  ELSE IF Len(t) >= 2 /\ t[1] \in Kinds /\ t[2] = <<"{">> /\ Contains(t, <<"}">>)
    THEN LET c == FirstIndexOf(t, <<"}">>)
             rest == Drop(t, c)
         IN IF /\ Len(rest) >= 5 /\ rest[1] = <<"=">> /\ rest[2] = KwRequire
               /\ rest[3] = <<"(">> /\ IsString(rest[4]) /\ rest[5] = <<")">>
               /\ Ends(Drop(rest, 5))
              THEN [ok |-> TRUE, depID |-> Tail(rest[4]), idents |-> <<>>,
                    defaults |-> <<>>, props |-> NamesIn(SubSeq(t, 3, c - 1))]
              ELSE NotImport
  ELSE NotImport

\* find-imports on the specifiers of an import declaration
RECURSIVE DecodeSpecifiers(_, _)
DecodeSpecifiers(ts, acc) ==
  IF ts = <<>> THEN acc
  ELSE IF Head(ts) = <<"*">> /\ Len(ts) >= 3 /\ ts[2] = KwAs
    THEN DecodeSpecifiers(Drop(ts, 3), [acc EXCEPT !.idents = Append(@, ts[3])])
  ELSE IF Head(ts) = <<"{">>
    THEN LET c == IF Contains(ts, <<"}">>) THEN FirstIndexOf(ts, <<"}">>) ELSE Len(ts)
         IN DecodeSpecifiers(Drop(ts, c),
              [acc EXCEPT !.props = @ \o NamesIn(SubSeq(ts, 2, c - 1))])
  ELSE IF IsName(Head(ts))
    THEN DecodeSpecifiers(Tail(ts), [acc EXCEPT !.defaults = Append(@, Head(ts))])
  ELSE DecodeSpecifiers(Tail(ts), acc)

DecodeImport(t) ==
  IF Len(t) >= 4 /\ t[1] = KwImport /\ Contains(t, KwFrom)
    THEN LET f == FirstIndexOf(t, KwFrom)
         IN IF f + 1 <= Len(t) /\ IsString(t[f + 1]) /\ Ends(Drop(t, f + 1))
              THEN DecodeSpecifiers(SubSeq(t, 2, f - 1),
                     [NotImport EXCEPT !.ok = TRUE, !.depID = Tail(t[f + 1])])
              ELSE NotImport
  ELSE NotImport

DecodeStatement(text) ==
  LET t == Tokenize(text)
  IN IF DecodeRequire(t).ok THEN DecodeRequire(t) ELSE DecodeImport(t)

\* a declaration that opens a destructure it does not close on its line
OpensDestructure(text) ==
  LET t == Tokenize(text)
  IN /\ Len(t) >= 2 /\ t[1] \in Kinds \cup {KwImport}
     /\ Contains(t, <<"{">>) /\ ~Contains(t, <<"}">>)

\* the last line of the import statement that starts on line i (0: none)
StatementEnd(textLines, i) ==
  IF DecodeStatement(textLines[i]).ok THEN i
  ELSE IF /\ OpensDestructure(textLines[i])
          /\ \E j \in (i + 1)..Len(textLines) : Contains(textLines[j], "}")
    THEN LET j == CHOOSE k \in (i + 1)..Len(textLines) :
                    /\ Contains(textLines[k], "}")
                    /\ \A m \in (i + 1)..(k - 1) : ~Contains(textLines[m], "}")
         IN IF DecodeStatement(JoinWith(SubSeq(textLines, i, j), <<"\n">>)).ok
              THEN j ELSE 0
  ELSE 0

\* context.reqs as find-imports leaves it: one per import statement, in
\* source order, with node.loc's lines
RECURSIVE FindImports(_, _)
FindImports(textLines, i) ==
  IF i > Len(textLines) THEN <<>>
  ELSE LET e == StatementEnd(textLines, i)
       IN IF e = 0 THEN FindImports(textLines, i + 1)
          ELSE LET st == DecodeStatement(JoinWith(SubSeq(textLines, i, e), <<"\n">>))
               IN << [start |-> i, end |-> e, depID |-> st.depID, idents |-> st.idents,
                      defaults |-> st.defaults, props |-> st.props] >>
                    \o FindImports(textLines, e + 1)

UseStrict == <<"u", "s", "e", " ", "s", "t", "r", "i", "c", "t">>
NoDirective == [present |-> FALSE, line |-> 0, column |-> 0]

\* context.getUseStrict(): the directive that opens the program, with
\* loc.end as line (1-based) and column (0-based, past its semicolon)
GetUseStrict(textLines) ==
  IF \A i \in DOMAIN textLines : whiteRegex(textLines[i]) THEN NoDirective
  ELSE LET first == CHOOSE i \in DOMAIN textLines :
                      /\ ~whiteRegex(textLines[i])
                      /\ \A j \in 1..(i - 1) : whiteRegex(textLines[j])
           text == textLines[first]
           t == Tokenize(text)
       IN IF t # <<>> /\ t[1] = <<"\"">> \o UseStrict
            THEN LET close == FirstIndexOf(text, "\"") + Len(UseStrict) + 1
                 IN [present |-> TRUE, line |-> first,
                     column |-> IF close < Len(text) /\ text[close + 1] = ";"
                                  THEN close + 1 ELSE close]
            ELSE NoDirective

\* context.endsLine(node): only white space follows the node on its line
EndsLine(textLines, directive) ==
  whiteRegex(Drop(textLines[directive.line], directive.column))

Spanned(reqs) == UNION {reqs[k].start..reqs[k].end : k \in DOMAIN reqs}

\* the code of line i: what is not an import statement or the directive
CodeTokens(textLines, reqs, directive, i) ==
  IF i \in Spanned(reqs) THEN <<>>
  ELSE IF directive.present /\ directive.line = i
    THEN Tokenize(Drop(textLines[i], directive.column))
  ELSE Tokenize(textLines[i])

\* the names a line declares, and the references it makes
DeclaredIn(t) == {t[k] : k \in {j \in 2..Len(t) : IsName(t[j]) /\ t[j - 1] \in Kinds}}
ReferencesIn(t) ==
  LET at == SelectSeq([k \in DOMAIN t |-> k],
              LAMBDA k : /\ IsName(t[k])
                         /\ k = 1 \/ (t[k - 1] \notin Kinds /\ t[k - 1] # <<".">>))
  IN [j \in DOMAIN at |->
        [name |-> t[at[j]],
         isTypeOf |-> at[j] > 1 /\ t[at[j] - 1] = KwTypeof,
         writeExpr |-> at[j] < Len(t) /\ t[at[j] + 1] = <<"=">>]]

NoContext ==
  [style |-> "", textLines |-> <<>>, reqs |-> <<>>, directive |-> NoDirective,
   through |-> <<>>, declared |-> {}]

\* what the scope analysis makes of the lines: the global scope's set
\* (declared) and its unresolved references (through)
ScopeOf(textLines, found, directive) ==
  [declared |->
     UNION {DeclaredIn(CodeTokens(textLines, found, directive, i)) : i \in DOMAIN textLines}
       \cup UNION {Range(found[k].idents) \cup Range(found[k].defaults)
                     \cup Range(found[k].props) : k \in DOMAIN found},
   references |->
     Concat([i \in DOMAIN textLines |->
               ReferencesIn(CodeTokens(textLines, found, directive, i))])]

\* run()'s resolution of the relative dependency paths
ResolveDepIDs(dir, found) ==
  [k \in DOMAIN found |->
     IF fileRegex(found[k].depID)
       THEN [found[k] EXCEPT !.depID = PathResolve(dir, SplitOn(@, "/"))]
       ELSE found[k]]

ContextOf(style, textLines, reqs, directive, scope) ==
  [style |-> style,
   textLines |-> textLines,
   reqs |-> reqs,
   directive |-> directive,
   through |-> SelectSeq(scope.references, LAMBDA r : r.name \notin scope.declared),
   declared |-> scope.declared]

WalkLines(dir, style, textLines, found, directive) ==
  ContextOf(style, textLines, ResolveDepIDs(dir, found), directive,
            ScopeOf(textLines, found, directive))

WalkText(dir, style, textLines) ==
  WalkLines(dir, style, textLines, FindImports(textLines, 1), GetUseStrict(textLines))

\* walker.run, then run()'s resolution of the relative dependency paths
WalkerRun(dir, style, text) == WalkText(dir, style, SplitOn(text, "\n"))

Undefined == <<"u", "n", "d", "e", "f", "i", "n", "e", "d">>
\* context.getLineText(line)
GetLineText(textLines, line) ==
  IF line \in DOMAIN textLines THEN textLines[line] ELSE Undefined

----------------------------------------------------------------------------
(* rewriteCode and what it calls (lib/importer.js)                         *)

\* Array.from(new Set(xs))
ArrayFromSet(xs) == PromoteInto(<<>>, xs)

\* findMissingIdents(context)
FindMissingIdents(ctx) ==
  LET refs == SelectSeq(ctx.through, LAMBDA r : ~r.isTypeOf /\ ~r.writeExpr)
      names == [i \in DOMAIN refs |-> refs[i].name]
  IN ArrayFromSet(SelectSeq(names, LAMBDA n : n \notin ctx.declared))

EmptyLib == [idents |-> <<>>, defaults |-> <<>>, props |-> <<>>]

RECURSIVE EmptyLibs(_, _)
EmptyLibs(libs, depIDs) ==
  IF depIDs = <<>> THEN libs
  ELSE EmptyLibs(LibsSet(libs, Head(depIDs), EmptyLib), Tail(depIDs))

\* mutant: a default is pushed as if it were a whole-module ident
PushByTypeDefaultAsIdent(lib, type, ident) ==
  IF type = TypeIdent \/ type = TypeDefault THEN [lib EXCEPT !.idents = Append(@, ident)]
  ELSE [lib EXCEPT !.props = Append(@, ident)]

\* resolveIdents' switch on the dep's type
PushByType(lib, type, ident) ==
  IF type = TypeIdent THEN [lib EXCEPT !.idents = Append(@, ident)]
  ELSE IF type = TypeDefault THEN [lib EXCEPT !.defaults = Append(@, ident)]
  ELSE [lib EXCEPT !.props = Append(@, ident)]

RECURSIVE PushFixable(_, _, _)
PushFixable(libs, d, fixableIdents) ==
  IF fixableIdents = <<>> THEN libs
  ELSE LET ident == Head(fixableIdents)
           dep == d[ident]
       IN PushFixable(LibsSet(libs, dep.id, PushByType(LibOf(libs, dep.id), dep.type, ident)),
                      d, Tail(fixableIdents))

RECURSIVE PushReqs(_, _)
PushReqs(libs, reqs) ==
  IF reqs = <<>> THEN libs
  ELSE LET req == Head(reqs)
           lib == LibOf(libs, req.depID)
       IN PushReqs(LibsSet(libs, req.depID,
                     [idents |-> lib.idents \o req.idents,
                      defaults |-> lib.defaults \o req.defaults,
                      props |-> lib.props \o req.props]),
                   Tail(reqs))

SetMax(S) == CHOOSE x \in S : \A y \in S : y <= x

\* removeExtraLines(context, libsToAdd, linesToRemove): the lines it leaves
\* in linesToRemove
RemoveExtraLines(textLines, libsToAdd, linesToRemove) ==
  LET between ==
        {j \in 1..Len(textLines) :
           \E prevLine \in linesToRemove, line \in linesToRemove :
             /\ prevLine < j /\ j < line
             /\ \A m \in (prevLine + 1)..(line - 1) : m \notin linesToRemove
             /\ \A m \in (prevLine + 1)..(line - 1) : whiteRegex(GetLineText(textLines, m))}
      hasNoImports == \A k \in DOMAIN libsToAdd : LibIsEmpty(libsToAdd[k].lib)
      after ==
        IF /\ hasNoImports
           /\ linesToRemove # {}
           /\ whiteRegex(GetLineText(textLines, SetMax(linesToRemove) + 1))
          THEN {SetMax(linesToRemove) + 1} ELSE {}
  IN linesToRemove \cup between \cup after

LibsToAdd(ctx, d, fixableIdents) ==
  PushReqs(
    PushFixable(
      EmptyLibs(<<>>, [k \in DOMAIN ctx.reqs |-> ctx.reqs[k].depID]
                        \o [k \in DOMAIN fixableIdents |-> d[fixableIdents[k]].id]),
      d, fixableIdents),
    ctx.reqs)

ResolvedWith(ctx, libsToAdd) ==
  [libsToAdd |-> libsToAdd,
   linesToRemove |-> RemoveExtraLines(ctx.textLines, libsToAdd, Spanned(ctx.reqs))]

\* resolveIdents(context, depRegistry)
ResolveIdents(ctx, d) ==
  ResolvedWith(ctx,
    LibsToAdd(ctx, d, SelectSeq(FindMissingIdents(ctx), LAMBDA n : n \in DOMAIN d)))

\* the lines rewriteCode's loop emits, from line on
RECURSIVE EmitLines(_, _, _, _, _)
EmitLines(textLines, linesToRemove, targetLine, requiresText, line) ==
  IF line > Len(textLines) THEN <<>>
  ELSE (IF line \notin linesToRemove
          THEN GetLineText(textLines, line) \o <<"\n">> ELSE <<>>)
         \o (IF line = targetLine /\ Len(requiresText) > 0
               THEN requiresText \o <<"\n">> ELSE <<>>)
         \o EmitLines(textLines, linesToRemove, targetLine, requiresText, line + 1)

\* mutant: the newline the loop put after the last line is left in place
NormaliseEndKeeping(newCode) ==
  IF newCode = <<>> \/ newCode[Len(newCode)] # "\n" THEN newCode \o <<"\n">>
  ELSE newCode

\* the end of rewriteCode: what it returns for the code its loop built
NormaliseEnd(newCode) ==
  IF newCode = <<>> \/ newCode[Len(newCode)] # "\n" THEN newCode \o <<"\n">>
  ELSE IF Len(newCode) >= 2 /\ newCode[Len(newCode) - 1] = "\n"
    THEN Take(newCode, Len(newCode) - 1)
  ELSE newCode

\* targetLine = null
NoLine == 0 - 1

\* the line the directive shares, with the import block spliced into it
SplicedLine(endLineText, column, requiresText) ==
  Take(endLineText, column) \o <<"\n", "\n">> \o requiresText \o <<"\n", "\n">>
    \o Drop(endLineText, column + 1)

\* which branch of rewriteCode places the block
PlaceOf(ctx, composed) ==
  IF Len(ctx.reqs) > 0 THEN "reqs"
  ELSE IF Len(composed) = 0 THEN "none"
  ELSE IF ~ctx.directive.present THEN "top"
  ELSE IF EndsLine(ctx.textLines, ctx.directive) THEN "after"
  ELSE "splice"

\* requiresText as the branch leaves it
RequiresText(place, composed) ==
  IF place = "after" THEN <<"\n">> \o composed \o <<"\n">>
  ELSE IF place = "top" THEN composed \o <<"\n">>
  ELSE composed

TargetLine(ctx, place) ==
  IF place = "reqs" THEN ctx.reqs[1].start
  ELSE IF place = "after" THEN ctx.directive.line
  ELSE IF place = "top" THEN 0
  ELSE NoLine

\* context.textLines as the branch leaves it
TextLines(ctx, place, composed) ==
  IF place = "splice"
    THEN [ctx.textLines EXCEPT ![ctx.directive.line] =
            SplicedLine(@, ctx.directive.column, composed)]
    ELSE ctx.textLines

RewritePlaced(ctx, linesToRemove, composed, place) ==
  [composed |-> composed,
   newCode |-> NormaliseEnd(
     EmitLines(TextLines(ctx, place, composed), linesToRemove \cup {0},
               TargetLine(ctx, place), RequiresText(place, composed), 0))]

RewriteComposed(ctx, linesToRemove, composed) ==
  RewritePlaced(ctx, linesToRemove, composed, PlaceOf(ctx, composed))

RewriteResolved(ctx, resolved, dir) ==
  RewriteComposed(ctx, resolved.linesToRemove,
                  ComposeRequires(ctx.style, dir, resolved.libsToAdd))

\* rewriteCode(context, depRegistry, dir)
RewriteCode(ctx, d, dir) == RewriteResolved(ctx, ResolveIdents(ctx, d), dir)

----------------------------------------------------------------------------
(* Static populate                                                         *)

MaxCallers == 3
Callers == 1..MaxCallers
Dirs == {"d1", "d2"}

\* the promise chain of instance populate(dir), one suspension point each
BuildChain ==
  <<"findPkgMeta", "readCache", "register", "writeFile", "computeDeps",
    "publish", "resolved">>

NextPc(pc) ==
  LET i == CHOOSE k \in 1..Len(BuildChain) : BuildChain[k] = pc
  IN BuildChain[i + 1]

\* the steps of the chain that perform I/O and may reject
Rejecting == {"findPkgMeta", "readCache", "register", "writeFile"}

NoHandle == [kind |-> "none"]

PopulateStart ==
  /\ promises = [d \in Dirs |-> 0]
  /\ instances = [d \in Dirs |-> 0]
  /\ insts = <<>>
  /\ handles = [c \in Callers |-> NoHandle]

\* mutant: the in-flight handle is not consulted
HasPromiseNever(dir) == FALSE

\* this.promises && this.promises[dir]
HasPromise(dir) == promises[dir] # 0

\* this.instances && this.instances[dir]
HasInstance(dir) == instances[dir] # 0

\* DepRegistry.populate(dir), called by caller c
StaticPopulate(c, dir) ==
  /\ handles[c] = NoHandle
  /\ IF HasPromise(dir)
       THEN /\ handles' = [handles EXCEPT ![c] =
                 [kind |-> "promise", dir |-> dir, inst |-> promises[dir],
                  phase |-> insts[promises[dir]].pc]]
            /\ UNCHANGED <<promises, instances, insts>>
       ELSE IF HasInstance(dir)
       THEN /\ handles' = [handles EXCEPT ![c] =
                 [kind |-> "instance", dir |-> dir, inst |-> instances[dir],
                  phase |-> insts[instances[dir]].pc]]
            /\ UNCHANGED <<promises, instances, insts>>
       ELSE /\ insts' = Append(insts, [dir |-> dir, pc |-> "findPkgMeta"])
            /\ promises' = [promises EXCEPT ![dir] = Len(insts) + 1]
            /\ handles' = [handles EXCEPT ![c] =
                 [kind |-> "promise", dir |-> dir, inst |-> Len(insts) + 1,
                  phase |-> "new"]]
            /\ UNCHANGED instances
  /\ UNCHANGED notPopulate

\* one link of instance.populate(dir)'s promise chain completes
BuildStep(i) ==
  /\ insts[i].pc \notin {"publish", "resolved", "rejected"}
  /\ insts' = [insts EXCEPT ![i].pc = NextPc(insts[i].pc)]
  /\ UNCHANGED <<promises, instances, handles>>
  /\ UNCHANGED notPopulate

\* a link rejects (an I/O error that is not swallowed): the chain is skipped
BuildReject(i) ==
  /\ insts[i].pc \in Rejecting
  /\ insts' = [insts EXCEPT ![i].pc = "rejected"]
  /\ UNCHANGED <<promises, instances, handles>>
  /\ UNCHANGED notPopulate

\* the .then(() => { this.instances[dir] = instance; return instance; })
Publish(i) ==
  /\ insts[i].pc = "publish"
  /\ instances' = [instances EXCEPT ![insts[i].dir] = i]
  /\ insts' = [insts EXCEPT ![i].pc = "resolved"]
  /\ UNCHANGED <<promises, handles>>
  /\ UNCHANGED notPopulate

NextPopulate ==
  \/ \E c \in Callers, d \in Dirs : StaticPopulate(c, d)
  \/ \E i \in 1..Len(insts) : BuildStep(i)
  \/ \E i \in 1..Len(insts) : BuildReject(i)
  \/ \E i \in 1..Len(insts) : Publish(i)

BuildsOf(dir) == {i \in 1..Len(insts) : insts[i].dir = dir}

\* C1: however the calls to populate(dir) interleave with the build steps,
\* exactly one build is started per dir that was asked for, and all handles
\* for a dir yield the same Registry instance.
C1_OneBuildSharedInstance ==
  /\ \A d \in Dirs : Cardinality(BuildsOf(d)) <= 1
  /\ \A c \in Callers : handles[c] # NoHandle =>
        /\ Cardinality(BuildsOf(handles[c].dir)) = 1
        /\ handles[c].inst \in BuildsOf(handles[c].dir)
  /\ \A c1, c2 \in Callers :
        (handles[c1] # NoHandle /\ handles[c2] # NoHandle
           /\ handles[c1].dir = handles[c2].dir)
        => handles[c1].inst = handles[c2].inst

\* three callers of one dir: before, during and after the build
C1_Witness ==
  \E c1, c2, c3 \in Callers :
    /\ handles[c1] # NoHandle /\ handles[c2] # NoHandle /\ handles[c3] # NoHandle
    /\ handles[c1].dir = handles[c2].dir /\ handles[c2].dir = handles[c3].dir
    /\ handles[c1].phase = "new"
    /\ handles[c2].phase = "writeFile"
    /\ handles[c3].phase = "resolved"

----------------------------------------------------------------------------
(* One run of the rewriter: run(dir, code), and a second run on its output *)

StyleRequire ==
  [requireKeyword |-> "require", kind |-> KwConst, quote |-> <<"\"">>,
   semi |-> <<";">>, tab |-> <<" ", " ">>, trailingComma |-> <<",">>]
StyleImport == [StyleRequire EXCEPT !.requireKeyword = "import"]
Styles == {StyleRequire, StyleImport}

NameA == <<"a">>
NameB == <<"b">>
NameAB == <<"a", "b">>
NameBA == <<"b", "a">>
LongD == [i \in 1..30 |-> "d"]
LongE == [i \in 1..30 |-> "e"]

\* the registry the run is given: four modules, no name listed twice
RewriteRegistry ==
  << [id |-> <<"b">>,
      entry |-> [FreshEntry("1") EXCEPT !.idents = <<NameA>>, !.props = <<LongD, LongE>>]],
     [id |-> <<"a", "/", "b">>, entry |-> [FreshEntry("1") EXCEPT !.props = <<NameB>>]],
     [id |-> <<"c", "/", "a">>, entry |-> [FreshEntry("1") EXCEPT !.idents = <<NameBA>>]],
     [id |-> Join(DirX, <<"a", ".", "j", "s">>),
      entry |-> [FreshEntry("1") EXCEPT !.defaults = <<NameAB>>]] >>
RewriteDeps == ComputeDeps(RewriteRegistry)

\* an import statement as the file has it, in the file's style
Statement(style, a) ==
  IF style.requireKeyword = "require"
    THEN ComposeRequireStatement(style, a)
    ELSE ComposeImportStatement(style, a)
ImportXY(style) == Statement(style, ArgProps(<<"b">>, << <<"y">>, <<"x">> >>, <<>>))
ImportW(style) == Statement(style, ArgDef(<<".", "/", "a", ".", "j", "s">>, <<"w">>))
ImportU(style) == Statement(style, ArgDef(<<"b">>, <<"u">>))
ImportV(style) == Statement(style, ArgIdent(<<".", "/", "b", ".", "j", "s">>, <<"v">>))

Directive == <<"\"", "u", "s", "e", " ", "s", "t", "r", "i", "c", "t", "\"", ";">>
BlankLine == <<>>
CallZ == <<"z", "(", ")", ";">>

\* how the file opens
Heads ==
  { <<>>, <<BlankLine>>, <<Directive>>, <<Directive, BlankLine>>,
    <<Directive \o <<" ", "a", "b", "(", ")", ";">>>>,
    <<Directive \o <<"a", "b", "(", ")", ";">>>> }

\* the import statements the file has, and the lines among them
ImportLines(style) ==
  { <<>>,
    <<ImportXY(style), BlankLine>>,
    <<ImportW(style)>>,
    <<ImportW(style), ImportXY(style), BlankLine>>,
    <<ImportXY(style), BlankLine, ImportW(style)>>,
    <<ImportV(style), CallZ, ImportW(style), BlankLine>>,
    <<ImportXY(style), <<" ">>, BlankLine, ImportV(style)>>,
    <<ImportU(style), BlankLine>>,
    <<ImportXY(style), ImportU(style), BlankLine>> }

\* the rest of the file
Bodies ==
  { <<>>,
    << <<"a", "(", ")", ";">> >>,
    << <<"a", "b", "(", "a", ",", " ", "b", ",", " ", "b", "a", ",", " ", "z", ")", ";">> >>,
    << <<"t", "y", "p", "e", "o", "f", " ", "a", ";">>, <<"b", " ", "=", " ", "1", ";">> >>,
    << <<"v", "a", "r", " ", "a", "b", ";">>, <<"a", "b", "(", "b", "a", ",", " ", "a", ")", ";">> >>,
    << LongD \o <<"(">> \o LongE \o <<")", ";">> >>,
    << CallZ >>,
    << <<"b", "(", ")", ";">>, BlankLine, <<"b", "a", "(", ")", ";">> >> }

MaxTrailingBlank == 1
\* how the file ends: no final newline, or one and then blank lines
Ends_ ==
  {<<>>} \cup {[i \in 1..(k + 1) |-> "\n"] : k \in 0..MaxTrailingBlank}

InputsIn(st) ==
  {[style |-> st, text |-> JoinWith(h \o im \o b, <<"\n">>) \o e] :
     h \in Heads, im \in ImportLines(st), b \in Bodies, e \in Ends_}
RewriteInputs == UNION {InputsIn(st) : st \in Styles}

NoInput == [style |-> "", text |-> <<>>]

RewriteStart ==
  /\ rin \in RewriteInputs
  /\ rpc = "start"
  /\ pass = 1
  /\ code = rin.text
  /\ context = NoContext
  /\ block = <<>>
  /\ output = <<>>

IdleRewrite ==
  /\ rin = NoInput
  /\ rpc = "idle"
  /\ pass = 0
  /\ code = <<>>
  /\ context = NoContext
  /\ block = <<>>
  /\ output = <<>>

\* run(): walker.run(meta, code, visitors) and the resolution of the
\* relative dependency paths
Walk ==
  /\ rpc = "start"
  /\ context' = WalkerRun(StartDir, rin.style, code)
  /\ rpc' = "walked"
  /\ UNCHANGED <<rin, pass, code, block, output>>
  /\ UNCHANGED notRewrite

\* run(): DepRegistry.populate(dir, meta).then(depRegistry =>
\* rewriteCode(context, depRegistry, dir))
Rewrite ==
  /\ rpc = "walked"
  /\ LET result == RewriteCode(context, RewriteDeps, StartDir)
     IN /\ block' = result.composed
        /\ output' = result.newCode
  /\ rpc' = "rewritten"
  /\ UNCHANGED <<rin, pass, code, context>>
  /\ UNCHANGED notRewrite

\* the rewriter is run on the file it wrote
RunAgain ==
  /\ rpc = "rewritten"
  /\ pass = 1
  /\ code' = output
  /\ pass' = pass + 1
  /\ rpc' = "start"
  /\ UNCHANGED <<rin, context, block, output>>
  /\ UNCHANGED notRewrite

NextRewrite == Walk \/ Rewrite \/ RunAgain

----------------------------------------------------------------------------
(* One call of composeStatements(style, lib, id)                           *)

ComposeStyles ==
  Styles \cup {[st EXCEPT !.semi = <<>>, !.trailingComma = <<>>] : st \in Styles}

\* a name of n characters c
Named(c, n) == [i \in 1..n |-> c]

MaxPropLength == 33
PropLengths == (MaxPropLength - 11)..MaxPropLength
LongIdent == Named("i", 75)
LongDefault == Named("f", 75)

IdentLists ==
  { <<>>, << <<"i", "1">> >>, << <<"i", "2">>, <<"i", "1">> >>, <<LongIdent>> }
DefaultLists ==
  { <<>>, << <<"d", "1">> >>, << <<"d", "2">>, <<"d", "1">> >>,
    << <<"d", "3">>, <<"d", "1">>, <<"d", "2">> >>, <<LongDefault>> }
PropLists ==
  { <<>>, << <<"p">> >> }
    \cup {<<Named("q", 26), Named("p", n)>> : n \in PropLengths}

ComposeInputs ==
  [style : ComposeStyles, id : {<<"b">>},
   lib : [idents : IdentLists, defaults : DefaultLists, props : PropLists]]

NoCompose == [style |-> "", id |-> <<>>, lib |-> EmptyLib]
NoComposed == [args |-> <<>>, statements |-> <<>>, calls |-> <<>>]

ComposeStart ==
  /\ cin \in ComposeInputs
  /\ cpc = "start"
  /\ cout = NoComposed

IdleCompose ==
  /\ cin = NoCompose
  /\ cpc = "idle"
  /\ cout = NoComposed

\* the throw a call of a statement composer opens with
Throws(style, a) ==
  IF style.requireKeyword = "require" THEN RequireThrows(a) ELSE ImportThrows(a)

\* one call of a statement composer: what it returns and how often it is
\* entered
StatementCalls(style, a) ==
  IF style.requireKeyword = "require" THEN RequireCalls(style, a, FALSE)
  ELSE ImportCalls(style, a, FALSE)

\* composeStatements(style, lib, id) returns, or throws out of a statement
\* composer
ComposeCall ==
  /\ cpc = "start"
  /\ LET args == StatementArgs(cin.style, cin.lib, cin.id)
     IN IF \E k \in DOMAIN args : Throws(cin.style, args[k])
          THEN cpc' = "thrown" /\ UNCHANGED cout
          ELSE /\ cpc' = "composed"
               /\ cout' = [args |-> args,
                           statements |-> ComposeStatements(cin.style, cin.lib, cin.id),
                           calls |-> [k \in DOMAIN args |->
                                        StatementCalls(cin.style, args[k])]]
  /\ UNCHANGED cin
  /\ UNCHANGED notCompose

NextCompose == ComposeCall

----------------------------------------------------------------------------
(* Calls of associate({ name, id, priority, type }) on one registry        *)

MaxOffers == 3
OfferNames == {<<"x">>, <<"y">>}
Priorities == {PriorityPkgRegex, PriorityOther, PriorityNode}
Types == {TypeIdent, TypeDefault, TypeProp}

\* the k-th candidate comes from the k-th id
OfferId(k) == Named("m", k)

OfferSequences ==
  [1..MaxOffers -> [name : OfferNames, priority : Priorities, type : Types]]

AssociateStart ==
  /\ \E cs \in OfferSequences :
       offers = [k \in DOMAIN cs |->
                   [name |-> cs[k].name, id |-> OfferId(k),
                    priority |-> cs[k].priority, type |-> cs[k].type]]
  /\ offered = <<>>
  /\ assoc = NoDeps

IdleAssociate ==
  /\ offers = <<>>
  /\ offered = <<>>
  /\ assoc = NoDeps

\* one call of associate
AssociateCall ==
  /\ offers # <<>>
  /\ LET c == Head(offers)
     IN assoc' = Associate(assoc, c.name, c.id, c.priority, c.type)
  /\ offered' = Append(offered, Head(offers))
  /\ offers' = Tail(offers)
  /\ UNCHANGED notAssociate

NextAssociate == AssociateCall

----------------------------------------------------------------------------
(* Claims about the rewriter                                               *)

\* the import statements of a text, as find-imports reads them
StatementsIn(text) == FindImports(SplitOn(text, "\n"), 1)

RECURSIVE Count(_, _)
Count(xs, n) ==
  IF xs = <<>> THEN 0
  ELSE (IF Head(xs) = n THEN 1 ELSE 0) + Count(Tail(xs), n)

\* every name the statements bind, once per binding
AllBound(sts) ==
  Concat([k \in DOMAIN sts |-> sts[k].idents \o sts[k].defaults \o sts[k].props])
Binds(st, n) ==
  Contains(st.idents, n) \/ Contains(st.defaults, n) \/ Contains(st.props, n)
BoundAs(st, n) ==
  IF Contains(st.idents, n) THEN TypeIdent
  ELSE IF Contains(st.defaults, n) THEN TypeDefault
  ELSE TypeProp
\* the module a statement names, as the registry names it
ModuleOf(st) ==
  IF fileRegex(st.depID) THEN PathResolve(StartDir, SplitOn(st.depID, "/")) ELSE st.depID

\* C4: every missing identifier the registry does not know is bound by no
\* statement of the composed block; every one it knows is bound by exactly
\* one statement, which names the module search(n).id and binds n in the form
\* of search(n).type, in the require and in the import style
C4_MissingBoundOnce ==
  rpc = "rewritten" =>
    LET sts == StatementsIn(block)
    IN \A n \in Range(FindMissingIdents(context)) :
         IF n \notin DOMAIN RewriteDeps THEN Count(AllBound(sts), n) = 0
         ELSE /\ Count(AllBound(sts), n) = 1
              /\ \A k \in DOMAIN sts :
                   Binds(sts[k], n) =>
                     /\ ModuleOf(sts[k]) = RewriteDeps[n].id
                     /\ BoundAs(sts[k], n) = RewriteDeps[n].type

\* C4 witness: an import-style file that has imports already and misses an
\* ident, a default, a prop and a name the registry does not know
C4_Witness ==
  /\ rpc = "rewritten"
  /\ rin.style = StyleImport
  /\ Len(context.reqs) > 0
  /\ LET missing == Range(FindMissingIdents(context))
     IN /\ \E n \in missing : n \notin DOMAIN RewriteDeps
        /\ {RewriteDeps[n].type : n \in missing \cap DOMAIN RewriteDeps}
             = {TypeIdent, TypeDefault, TypeProp}
        /\ \A n \in missing \cap DOMAIN RewriteDeps : Count(AllBound(StatementsIn(block)), n) = 1

RECURSIVE StripLeft(_)
StripLeft(s) == IF s # <<>> /\ s[1] = " " THEN StripLeft(Tail(s)) ELSE s

\* the texts of the lines that are neither import statements nor white
KeptLines(textLines, spans) ==
  Concat([i \in DOMAIN textLines |->
            IF i \in spans \/ whiteRegex(textLines[i]) THEN <<>>
            ELSE <<StripLeft(textLines[i])>>])

\* the same of the input, the line the block is spliced into counting as
\* the directive and the text that follows it
KeptInput(ctx, composed) ==
  Concat([i \in DOMAIN ctx.textLines |->
            IF i \in Spanned(ctx.reqs) \/ whiteRegex(ctx.textLines[i]) THEN <<>>
            ELSE IF PlaceOf(ctx, composed) = "splice" /\ i = ctx.directive.line
              THEN <<Take(ctx.textLines[i], ctx.directive.column),
                     StripLeft(Drop(ctx.textLines[i], ctx.directive.column))>>
            ELSE <<StripLeft(ctx.textLines[i])>>])

KeptOutput(text) ==
  KeptLines(SplitOn(text, "\n"), Spanned(StatementsIn(text)))

\* C5: the lines of the input that no import statement spans and that are
\* not white are the lines of the output outside its import statements, in
\* the same order and with the same text, the text after a directive that
\* shares its line included
C5_NonImportTextPreserved ==
  rpc = "rewritten" => KeptInput(context, block) = KeptOutput(output)

\* C6: what rewriteCode returns ends with exactly one newline
C6_EndsWithOneNewline ==
  rpc = "rewritten" =>
    /\ Len(output) >= 1
    /\ output[Len(output)] = "\n"
    /\ Len(output) >= 2 => output[Len(output) - 1] # "\n"

\* C7: rewriting what the rewriter wrote returns it unchanged
C7_RewriteIdempotent ==
  (rpc = "rewritten" /\ pass >= 2) => output = code

\* id1 sorts no later than id2: by base name, then by the full id
Precedes(id1, id2) ==
  \/ StrLess(Basename(id1), Basename(id2))
  \/ Basename(id1) = Basename(id2) /\ ~StrLess(id2, id1)

NonDecreasing(xs) == \A i \in 1..(Len(xs) - 1) : ~StrLess(xs[i + 1], xs[i])

\* C8: in the composed block the statements of external ids precede those
\* of local ids; in each group the ids ascend by base name, then by full
\* id; each id's idents, defaults and props ascend; and one empty line
\* stands between the groups exactly when both have statements
C8_BlockOrdered ==
  (rpc = "rewritten" /\ block # <<>>) =>
    LET lines == SplitOn(block, "\n")
        sts == FindImports(lines, 1)
        external == {k \in DOMAIN sts : ~fileRegex(sts[k].depID)}
        local == {k \in DOMAIN sts : fileRegex(sts[k].depID)}
        free == DOMAIN lines \ Spanned(sts)
    IN /\ \A i \in external, j \in local : i < j
       /\ \A i, j \in DOMAIN sts :
            (i < j /\ (i \in external <=> j \in external)) =>
              Precedes(sts[i].depID, sts[j].depID)
       /\ \A k \in DOMAIN sts :
            LET mine == SelectSeq(sts, LAMBDA st : st.depID = sts[k].depID)
            IN /\ NonDecreasing(Concat([m \in DOMAIN mine |-> mine[m].idents]))
               /\ NonDecreasing(Concat([m \in DOMAIN mine |-> mine[m].defaults]))
               /\ NonDecreasing(Concat([m \in DOMAIN mine |-> mine[m].props]))
       /\ IF external # {} /\ local # {}
            THEN \E l \in free :
                   /\ free = {l}
                   /\ lines[l] = <<>>
                   /\ l = sts[SetMax(external)].end + 1
                   /\ l = sts[SetMin(local)].start - 1
            ELSE free = {}

\* C8 witness: a block with two external ids of one base name, two external
\* ids whose base names order them against their full ids, two local ids,
\* and a statement of two props
C8_Witness ==
  /\ rpc = "rewritten"
  /\ LET sts == StatementsIn(block)
         external == {k \in DOMAIN sts : ~fileRegex(sts[k].depID)}
         local == {k \in DOMAIN sts : fileRegex(sts[k].depID)}
     IN /\ \E i, j \in external :
             /\ sts[i].depID # sts[j].depID
             /\ Basename(sts[i].depID) = Basename(sts[j].depID)
        /\ \E i, j \in external : i < j /\ StrLess(sts[j].depID, sts[i].depID)
        /\ \E i, j \in local : sts[i].depID # sts[j].depID
        /\ \E k \in DOMAIN sts : Len(sts[k].props) >= 2

\* nothing to import and nothing imported: no import statement in the
\* file and an empty composed block
NothingToDo == rpc = "rewritten" /\ Len(context.reqs) = 0 /\ block = <<>>

EndsWithNewline(text) == text # <<>> /\ text[Len(text)] = "\n"

\* C12: when the libs bind no names and the file has no imports, what
\* rewriteCode returns is the input text, character for character
C12_NothingToDoReturnsInput ==
  NothingToDo => output = code

\* C12 amended: then what rewriteCode returns is the input text when that
\* ends with a newline, and the input text followed by one newline when it
\* does not
C12_NothingToDoAmended ==
  NothingToDo =>
    output = IF EndsWithNewline(code) THEN code ELSE code \o <<"\n">>

\* C12 witness: a file without imports or final newline whose one missing
\* identifier the registry does not know
C12_Witness ==
  /\ NothingToDo
  /\ Len(FindMissingIdents(context)) > 0
  /\ code # <<>> /\ ~EndsWithNewline(code)
  /\ output = code \o <<"\n">>

----------------------------------------------------------------------------
(* Claims about composeStatements                                          *)

RECURSIVE TotalLength(_)
TotalLength(names) ==
  IF names = <<>> THEN 0 ELSE Len(Head(names)) + TotalLength(Tail(names))

\* the length of names joined by a comma and a space
JoinedLength(names) ==
  IF names = <<>> THEN 0 ELSE TotalLength(names) + 2 * (Len(names) - 1)

\* what the statement composed from a is made of, on one line
SingleLineParts(style, a) ==
  (IF a.def # <<>> THEN <<a.def>> ELSE <<>>)
    \o (IF a.ident # <<>>
          THEN IF style.requireKeyword = "require" THEN <<a.ident>>
               ELSE <<<<"*", " ", "a", "s", " ">> \o a.ident>>
          ELSE <<>>)
    \o (IF Len(a.props) > 0 THEN <<Named("x", 4 + JoinedLength(a.props))>> ELSE <<>>)

\* the length of that statement: kind, name, " = require(", quoted id, ")",
\* ".default" and semi, or "import ", names, " from ", quoted id and semi
SingleLineLength(style, a) ==
  IF style.requireKeyword = "require"
    THEN Len(style.kind) + 1 + JoinedLength(SingleLineParts(style, a)) + 11
           + 2 * Len(style.quote) + Len(a.id) + 1
           + (IF a.def # <<>> THEN 8 ELSE 0) + Len(style.semi)
    ELSE 7 + JoinedLength(SingleLineParts(style, a)) + 6
           + 2 * Len(style.quote) + Len(a.id) + Len(style.semi)

IsMultiLine(statement) == Contains(statement, "\n")

\* the destructure is opened: "{" ends the first line, each prop has a line
\* of its own behind the tab, a comma after each but the last, the style's
\* trailing comma after the last, and "}" opens the last line
OpenedDestructure(style, props, statement) ==
  LET lines == SplitOn(statement, "\n")
  IN /\ Len(lines) = Len(props) + 2
     /\ lines[1][Len(lines[1])] = "{"
     /\ lines[Len(lines)][1] = "}"
     /\ \A i \in DOMAIN props :
          lines[i + 1] = style.tab \o props[i]
                           \o (IF i < Len(props) THEN <<",">> ELSE style.trailingComma)

\* C13: a composed statement is in multi-line form exactly when it has a
\* props destructure and is longer than 80 characters on one line; in that
\* form every prop has its own indented line, the last one followed by the
\* style's trailing comma; otherwise it is on one line, whatever its length;
\* no statement is composed more than twice
C13_MultiLineIffLongProps ==
  cpc = "composed" =>
    \A k \in DOMAIN cout.statements :
      LET a == cout.args[k]
          statement == cout.statements[k]
      IN /\ IsMultiLine(statement)
              <=> (Len(a.props) > 0 /\ SingleLineLength(cin.style, a) > 80)
         /\ IsMultiLine(statement) => OpenedDestructure(cin.style, a.props, statement)
         /\ ~IsMultiLine(statement) => Len(statement) = SingleLineLength(cin.style, a)
         /\ cout.calls[k] <= 2

\* C13 witness: one block holds a props statement that is 81 characters on
\* one line and is opened, and a statement without props that is longer and
\* is not
C13_Witness ==
  /\ cpc = "composed"
  /\ \E k \in DOMAIN cout.statements :
       /\ Len(cout.args[k].props) > 0
       /\ SingleLineLength(cin.style, cout.args[k]) = 81
       /\ IsMultiLine(cout.statements[k])
       /\ cout.calls[k] = 2
  /\ \E k \in DOMAIN cout.statements :
       /\ Len(cout.args[k].props) = 0
       /\ Len(cout.statements[k]) > 81
       /\ ~IsMultiLine(cout.statements[k])

\* the names of the lib, once per occurrence
LibNames(lib) == lib.idents \o lib.defaults \o lib.props

\* C16: composeStatements never throws, whatever the lib and the style, and
\* the statements it returns bind every name of the lib exactly once, each in
\* the form of the list it is in
C16_ComposeBindsEachNameOnce ==
  /\ cpc # "thrown"
  /\ cpc = "composed" =>
       LET sts == StatementsIn(JoinWith(cout.statements, <<"\n">>))
       IN /\ \A n \in Range(LibNames(cin.lib)) : Count(AllBound(sts), n) = 1
          /\ Len(AllBound(sts)) = Len(LibNames(cin.lib))
          /\ \A k \in DOMAIN sts :
               /\ sts[k].depID = cin.id
               /\ Range(sts[k].idents) \subseteq Range(cin.lib.idents)
               /\ Range(sts[k].defaults) \subseteq Range(cin.lib.defaults)
               /\ Range(sts[k].props) \subseteq Range(cin.lib.props)

\* C16 witness: an import-style lib with more defaults than idents, and
\* props, is composed
C16_Witness ==
  /\ cpc = "composed"
  /\ cin.style.requireKeyword = "import"
  /\ Len(cin.lib.props) > 0
  /\ Len(cin.lib.idents) > 0
  /\ Len(cin.lib.defaults) > Len(cin.lib.idents) + 1
  /\ Len(cout.statements) = Len(cin.lib.defaults)

----------------------------------------------------------------------------
(* Claims about associate                                                  *)

\* the candidates offered for a name, in the order of the offers
OfferedFor(name) == SelectSeq(offered, LAMBDA c : c.name = name)

EqualPriority(cs) == \A i, j \in DOMAIN cs : cs[i].priority = cs[j].priority

\* the first candidate that is not a prop, or the first one if all are props
Preferred(cs) ==
  LET firm == SelectSeq(cs, LAMBDA c : c.type # TypeProp)
  IN IF firm # <<>> THEN Head(firm) ELSE Head(cs)

\* C14: when the candidates offered for a name all have the same priority,
\* deps[name] is the first ident or default candidate offered, whether props
\* were offered before it or after it, and the first prop candidate when only
\* props were offered
C14_EqualPriorityTies ==
  \A name \in OfferNames :
    LET cs == OfferedFor(name)
    IN (cs # <<>> /\ EqualPriority(cs)) =>
         /\ name \in DOMAIN assoc
         /\ assoc[name] = [id |-> Preferred(cs).id,
                           priority |-> Preferred(cs).priority,
                           type |-> Preferred(cs).type]

\* C14 witness: for one name a prop, then an ident, then a default of the
\* same priority were offered, and the ident is kept
C14_Witness ==
  \E name \in OfferNames :
    LET cs == OfferedFor(name)
    IN /\ Len(cs) >= 3
       /\ EqualPriority(cs)
       /\ cs[1].type = TypeProp /\ cs[2].type = TypeIdent /\ cs[3].type = TypeDefault
       /\ assoc[name].id = cs[2].id

----------------------------------------------------------------------------
(* Specifications                                                          *)

InitPopulate == PopulateStart /\ IdleBuild /\ IdleRewrite /\ IdleCompose /\ IdleAssociate
SpecPopulate == InitPopulate /\ [][NextPopulate]_vars

InitBuild == BuildInputs /\ PopulateStart /\ IdleRewrite /\ IdleCompose /\ IdleAssociate
SpecBuild == InitBuild /\ [][NextBuild]_vars

InitRewrite == RewriteStart /\ PopulateStart /\ IdleBuild /\ IdleCompose /\ IdleAssociate
SpecRewrite == InitRewrite /\ [][NextRewrite]_vars

InitCompose == ComposeStart /\ PopulateStart /\ IdleBuild /\ IdleRewrite /\ IdleAssociate
SpecCompose == InitCompose /\ [][NextCompose]_vars

InitAssociate ==
  AssociateStart /\ PopulateStart /\ IdleBuild /\ IdleRewrite /\ IdleCompose
SpecAssociate == InitAssociate /\ [][NextAssociate]_vars

====
